---- MODULE Spec2Model ----
(***************************************************************************)
(* Model of src/handler.py: the Lambda-style entry point handler(event,    *)
(* context) and the three per-type handlers it routes to.                  *)
(*                                                                         *)
(* Python values are tagged records [k, n, s]: k is the dynamic type, n    *)
(* the numeric payload and s the string payload (a sequence of one-        *)
(* character strings).  A float carries its value in ten-thousandths, so   *)
(* that inputs below the third decimal place exist and round(x, 3) is a    *)
(* real rounding step.                                                     *)
(***************************************************************************)
EXTENDS Integers, Sequences, FiniteSets, TLC

VARIABLES event, pc, result

vars == <<event, pc, result>>

(* ------------------------------ bounds --------------------------------- *)

\* longest e-mail candidate enumerated exhaustively over EmailAlphabet
MaxEmailLen == 6

(* --------------------------- Python values ----------------------------- *)

\* floats are held in units of 1/Scale
Scale == 10000

Absent == [k |-> "absent", n |-> 0, s |-> <<>>]
None == [k |-> "none", n |-> 0, s |-> <<>>]
IntV(i) == [k |-> "int", n |-> i, s |-> <<>>]
BoolV(b) == [k |-> "bool", n |-> IF b THEN 1 ELSE 0, s |-> <<>>]
FloatV(m) == [k |-> "float", n |-> m, s |-> <<>>]
NaN == [k |-> "nan", n |-> 0, s |-> <<>>]
InfV(sign) == [k |-> "inf", n |-> sign, s |-> <<>>]
\* an int beyond the range of a double, such as 10**400
BigIntV == [k |-> "bigint", n |-> 1, s |-> <<>>]
StrV(cs) == [k |-> "str", n |-> 0, s |-> cs]
ListV == [k |-> "list", n |-> 0, s |-> <<>>]
DictV == [k |-> "dict", n |-> 0, s |-> <<>>]

\* isinstance(v, int): bool is a subclass of int
IsInt(v) == v.k \in {"int", "bool", "bigint"}

\* isinstance(v, (int, float))
IsNumber(v) == v.k \in {"int", "bool", "bigint", "float", "nan", "inf"}

\* isinstance(v, str)
IsStr(v) == v.k = "str"

\* hash(v) raises TypeError for the mutable containers
Hashable(v) == v.k \notin {"list", "dict"}

(* ------------------------------ strings -------------------------------- *)

UpperLetters == <<"A","B","C","D","E","F","G","H","I","J","K","L","M",
                  "N","O","P","Q","R","S","T","U","V","W","X","Y","Z">>

LowerLetters == <<"a","b","c","d","e","f","g","h","i","j","k","l","m",
                  "n","o","p","q","r","s","t","u","v","w","x","y","z">>

DigitChars == <<"0","1","2","3","4","5","6","7","8","9">>

\* the characters matched by \s that the inputs use
Whitespace == {" ", "\t", "\n", "\r"}

IndexIn(c, seq) == CHOOSE i \in 1..Len(seq) : seq[i] = c

InSeq(c, seq) == \E i \in 1..Len(seq) : seq[i] = c

LowerChar(c) == IF InSeq(c, UpperLetters) THEN LowerLetters[IndexIn(c, UpperLetters)] ELSE c

UpperChar(c) == IF InSeq(c, LowerLetters) THEN UpperLetters[IndexIn(c, LowerLetters)] ELSE c

\* str.lower()
Lower(cs) == [i \in 1..Len(cs) |-> LowerChar(cs[i])]

\* str.upper()
Upper(cs) == [i \in 1..Len(cs) |-> UpperChar(cs[i])]

RECURSIVE LStrip(_)
LStrip(cs) == IF cs # <<>> /\ Head(cs) \in Whitespace THEN LStrip(Tail(cs)) ELSE cs

RECURSIVE RStrip(_)
RStrip(cs) ==
    IF cs # <<>> /\ cs[Len(cs)] \in Whitespace THEN RStrip(SubSeq(cs, 1, Len(cs) - 1)) ELSE cs

\* str.strip()
Strip(cs) == RStrip(LStrip(cs))

\* code point of a character, for the ordering sorted() uses
Ord(c) ==
    IF InSeq(c, UpperLetters) THEN 64 + IndexIn(c, UpperLetters)
    ELSE IF InSeq(c, LowerLetters) THEN 96 + IndexIn(c, LowerLetters)
    ELSE IF InSeq(c, DigitChars) THEN 47 + IndexIn(c, DigitChars)
    ELSE IF c = "_" THEN 95
    ELSE IF c = "@" THEN 64
    ELSE IF c = "." THEN 46
    ELSE IF c = "-" THEN 45
    ELSE IF c = "," THEN 44
    ELSE IF c = " " THEN 32
    ELSE IF c = "\r" THEN 13
    ELSE IF c = "\n" THEN 10
    ELSE 9

\* a < b on str: lexicographic by code point
RECURSIVE StrLess(_, _)
StrLess(a, b) ==
    IF b = <<>> THEN FALSE
    ELSE IF a = <<>> THEN TRUE
    ELSE IF Ord(Head(a)) # Ord(Head(b)) THEN Ord(Head(a)) < Ord(Head(b))
    ELSE StrLess(Tail(a), Tail(b))

\* sorted(S) for a set of str
RECURSIVE Sorted(_)
Sorted(S) ==
    IF S = {} THEN <<>>
    ELSE LET m == CHOOSE x \in S : \A y \in S \ {x} : StrLess(x, y)
         IN <<m>> \o Sorted(S \ {m})

\* sep.join(parts)
RECURSIVE Join(_, _)
Join(sep, parts) ==
    IF parts = <<>> THEN <<>>
    ELSE IF Len(parts) = 1 THEN parts[1]
    ELSE parts[1] \o sep \o Join(sep, Tail(parts))

\* decimal digits of a natural number
RECURSIVE NatStr(_)
NatStr(i) == IF i < 10 THEN <<DigitChars[i + 1]>> ELSE NatStr(i \div 10) \o <<DigitChars[(i % 10) + 1]>>

\* str() of an int
IntStr(i) == IF i < 0 THEN <<"-">> \o NatStr(-i) ELSE NatStr(i)

\* the digits after the point: four places, trailing zeros dropped, one kept
RECURSIVE FracStr(_, _)
FracStr(f, places) ==
    IF f = 0 THEN (IF places = 4 THEN <<"0">> ELSE <<>>)
    ELSE LET unit == IF places = 4 THEN 1000 ELSE IF places = 3 THEN 100
                     ELSE IF places = 2 THEN 10 ELSE 1
         IN <<DigitChars[(f \div unit) + 1]>> \o FracStr(f % unit, places - 1)

\* str() of a float m/Scale (repr is positional for 1e-4 <= |x| < 1e16)
FloatStr(m) ==
    LET a == IF m < 0 THEN -m ELSE m
    IN (IF m < 0 THEN <<"-">> ELSE <<>>) \o NatStr(a \div Scale) \o <<".">> \o FracStr(a % Scale, 4)

\* str(v), as an f-string interpolates it
Format(v) ==
    CASE v.k = "str" -> v.s
      [] v.k = "int" -> IntStr(v.n)
      [] v.k = "float" -> FloatStr(v.n)
      [] v.k = "bool" -> IF v.n = 1 THEN <<"T","r","u","e">> ELSE <<"F","a","l","s","e">>
      [] v.k = "none" -> <<"N","o","n","e">>
      [] v.k = "nan" -> <<"n","a","n">>
      [] v.k = "inf" -> IF v.n < 0 THEN <<"-","i","n","f">> ELSE <<"i","n","f">>
      [] OTHER -> <<"?">>

(* ----------------------------- constants ------------------------------- *)

USER_SIGNUP == <<"U","S","E","R","_","S","I","G","N","U","P">>
PAYMENT == <<"P","A","Y","M","E","N","T">>
FILE_UPLOAD == <<"F","I","L","E","_","U","P","L","O","A","D">>

ALLOWED_TYPES == {USER_SIGNUP, PAYMENT, FILE_UPLOAD}
ALLOWED_PLANS == {<<"f","r","e","e">>, <<"p","r","o">>, <<"e","d","u">>}
ALLOWED_CURRENCIES == {<<"B","H","D">>, <<"U","S","D">>, <<"E","U","R">>}

(* ------------------------- response builders --------------------------- *)

\* one error string: its literal text with {} where the f-string interpolates
Msg(fmt, args) == [fmt |-> fmt, args |-> args]

\* a message written as a plain literal
Lit(text) == Msg(text, <<>>)

\* faulty variant: the error builder reports status ok
_err_status_ok(msgs) ==
    [kind |-> "result", status |-> "ok", message |-> "Event rejected",
     data |-> None, errors |-> msgs]

_err(msgs) ==
    [kind |-> "result", status |-> "error", message |-> "Event rejected",
     data |-> None, errors |-> msgs]

_ok(message, data) ==
    [kind |-> "result", status |-> "ok", message |-> message,
     data |-> data, errors |-> <<>>]

\* an exception that leaves handler()
Raise(exc) == [kind |-> "raise", exc |-> exc]

\* nothing returned yet
Pending == [kind |-> "pending"]

(* --------------------------- e-mail validator -------------------------- *)

\* the class [^@\s]
NotAtNotSpace(c) == c # "@" /\ c \notin Whitespace

\* [^@\s]+ matches the whole of cs
ClassPlus(cs) == cs # <<>> /\ \A i \in 1..Len(cs) : NotAtNotSpace(cs[i])

\* [^@\s]+@[^@\s]+\.[^@\s]+ matches the whole of cs
MatchesWhole(cs) ==
    \E i, j \in 1..Len(cs) :
        /\ i < j
        /\ cs[i] = "@"
        /\ cs[j] = "."
        /\ ClassPlus(SubSeq(cs, 1, i - 1))
        /\ ClassPlus(SubSeq(cs, i + 1, j - 1))
        /\ ClassPlus(SubSeq(cs, j + 1, Len(cs)))

\* where $ matches: at the end, and just before a newline that ends the string
DollarEnds(cs) ==
    {Len(cs)} \cup (IF cs # <<>> /\ cs[Len(cs)] = "\n" THEN {Len(cs) - 1} ELSE {})

_is_email(value) == \E e \in DollarEnds(value) : MatchesWhole(SubSeq(value, 1, e))

(* ------------------------------- events -------------------------------- *)

FieldNames == {"type", "user_id", "email", "plan", "payment_id", "amount", "currency",
               "file_name", "size_bytes", "bucket", "uploader"}

\* "name" in event
Has(ev, name) == ev.fields[name] # Absent

\* event.get(name): None when the key is absent
Get(ev, name) == IF Has(ev, name) THEN ev.fields[name] ELSE None

(* ------------------------------ arithmetic ----------------------------- *)

\* n/d rounded to the nearest integer, an exact tie to the even neighbour
RoundDiv(n, d) ==
    LET q == n \div d
        r == n % d
    IN IF 2 * r > d \/ (2 * r = d /\ q % 2 = 1) THEN q + 1 ELSE q

\* round(x, 3) of x = m/Scale, again in units of 1/Scale
Round3(m) == (Scale \div 1000) * RoundDiv(m, Scale \div 1000)

\* float(amount) for a finite amount, in units of 1/Scale
ToFloat(v) == IF v.k = "float" THEN v.n ELSE v.n * Scale

\* round(0.02 * normalized_amount, 3)
Fee(a) == (Scale \div 1000) * RoundDiv(2 * a, 100 * (Scale \div 1000))

\* amount <= 0; every comparison with nan is false
LeZero(v) ==
    CASE v.k = "nan" -> FALSE
      [] v.k = "inf" -> v.n < 0
      [] v.k = "bigint" -> v.n < 0
      [] OTHER -> v.n <= 0

(* -------------------------- USER_SIGNUP handler ------------------------ *)

signup_user_id_errors(user_id) ==
    IF user_id = None THEN <<Lit("Missing required field: 'user_id'")>>
    ELSE IF ~IsInt(user_id) THEN <<Lit("'user_id' must be an integer")>>
    ELSE <<>>

signup_email_errors(email) ==
    IF email = None THEN <<Lit("Missing required field: 'email'")>>
    ELSE IF ~IsStr(email) THEN <<Lit("'email' must be a string")>>
    ELSE IF ~_is_email(email.s) THEN <<Msg("Invalid email format: '{}'", <<Format(email)>>)>>
    ELSE <<>>

signup_plan_errors(plan) ==
    IF plan = None THEN <<Lit("Missing required field: 'plan'")>>
    ELSE IF ~IsStr(plan) THEN <<Lit("'plan' must be a string")>>
    ELSE IF Lower(plan.s) \notin ALLOWED_PLANS
         THEN <<Msg("Invalid plan: '{}'. Allowed: {}",
                    <<Format(plan), Join(<<","," ">>, Sorted(ALLOWED_PLANS))>>)>>
    ELSE <<>>

\* faulty variant: returns on the first rejected field
handle_user_signup_first_error(ev) ==
    LET user_id == Get(ev, "user_id")
        email == Get(ev, "email")
        plan == Get(ev, "plan")
    IN IF signup_user_id_errors(user_id) # <<>> THEN _err(signup_user_id_errors(user_id))
       ELSE IF signup_email_errors(email) # <<>> THEN _err(signup_email_errors(email))
       ELSE IF signup_plan_errors(plan) # <<>> THEN _err(signup_plan_errors(plan))
       ELSE _ok("Signup processed",
                [user_id |-> user_id,
                 email |-> StrV(Lower(email.s)),
                 plan |-> StrV(Lower(plan.s)),
                 welcome_email_subject |->
                     StrV(<<"W","e","l","c","o","m","e"," ","t","o"," ","t","h","e"," ">>
                          \o Lower(plan.s) \o <<" ","p","l","a","n","!">>)])

handle_user_signup(ev) ==
    LET user_id == Get(ev, "user_id")
        email == Get(ev, "email")
        plan == Get(ev, "plan")
        errors == signup_user_id_errors(user_id) \o signup_email_errors(email)
                  \o signup_plan_errors(plan)
    IN IF errors # <<>> THEN _err(errors)
       ELSE LET normalized_email == Lower(email.s)
                normalized_plan == Lower(plan.s)
            IN _ok("Signup processed",
                   [user_id |-> user_id,
                    email |-> StrV(normalized_email),
                    plan |-> StrV(normalized_plan),
                    welcome_email_subject |->
                        StrV(<<"W","e","l","c","o","m","e"," ","t","o"," ","t","h","e"," ">>
                             \o normalized_plan \o <<" ","p","l","a","n","!">>)])

(* ---------------------------- PAYMENT handler -------------------------- *)

payment_id_errors(payment_id) ==
    IF payment_id = None THEN <<Lit("Missing required field: 'payment_id'")>>
    ELSE IF ~IsStr(payment_id) THEN <<Lit("'payment_id' must be a string")>>
    ELSE <<>>

payment_user_id_errors(user_id) ==
    IF user_id = None THEN <<Lit("Missing required field: 'user_id'")>>
    ELSE IF ~IsInt(user_id) THEN <<Lit("'user_id' must be an integer")>>
    ELSE <<>>

\* faulty variant: amount < 0 in place of amount <= 0
amount_errors_negative_only(amount) ==
    IF amount = None THEN <<Lit("Missing required field: 'amount'")>>
    ELSE IF ~IsNumber(amount) THEN <<Lit("'amount' must be a number")>>
    ELSE IF LeZero(amount) /\ ~(amount.k \in {"int", "bool", "float"} /\ amount.n = 0)
         THEN <<Msg("'amount' must be greater than 0, got {}", <<Format(amount)>>)>>
    ELSE <<>>

amount_errors(amount) ==
    IF amount = None THEN <<Lit("Missing required field: 'amount'")>>
    ELSE IF ~IsNumber(amount) THEN <<Lit("'amount' must be a number")>>
    ELSE IF LeZero(amount)
         THEN <<Msg("'amount' must be greater than 0, got {}", <<Format(amount)>>)>>
    ELSE <<>>

currency_errors(currency) ==
    IF currency = None THEN <<Lit("Missing required field: 'currency'")>>
    ELSE IF ~IsStr(currency) THEN <<Lit("'currency' must be a string")>>
    ELSE IF Upper(currency.s) \notin ALLOWED_CURRENCIES
         THEN <<Msg("Invalid currency: '{}'. Allowed: {}",
                    <<Format(currency), Join(<<","," ">>, Sorted(ALLOWED_CURRENCIES))>>)>>
    ELSE <<>>

\* float() overflows on a huge int; nan and inf pass through round() unchanged
payment_data(payment_id, user_id, amount, currency) ==
    LET normalized_currency == StrV(Upper(currency.s))
    IN CASE amount.k = "bigint" -> Raise("OverflowError")
         [] amount.k = "nan" ->
                _ok("Payment processed",
                    [payment_id |-> payment_id, user_id |-> user_id, amount |-> NaN,
                     currency |-> normalized_currency, fee |-> NaN, net_amount |-> NaN])
         [] amount.k = "inf" ->
                _ok("Payment processed",
                    [payment_id |-> payment_id, user_id |-> user_id, amount |-> amount,
                     currency |-> normalized_currency, fee |-> amount, net_amount |-> NaN])
         [] OTHER ->
                LET normalized_amount == Round3(ToFloat(amount))
                    fee == Fee(normalized_amount)
                    net_amount == Round3(normalized_amount - fee)
                IN _ok("Payment processed",
                       [payment_id |-> payment_id, user_id |-> user_id,
                        amount |-> FloatV(normalized_amount),
                        currency |-> normalized_currency,
                        fee |-> FloatV(fee), net_amount |-> FloatV(net_amount)])

handle_payment(ev) ==
    LET payment_id == Get(ev, "payment_id")
        user_id == Get(ev, "user_id")
        amount == Get(ev, "amount")
        currency == Get(ev, "currency")
        errors == payment_id_errors(payment_id) \o payment_user_id_errors(user_id)
                  \o amount_errors(amount) \o currency_errors(currency)
    IN IF errors # <<>> THEN _err(errors)
       ELSE payment_data(payment_id, user_id, amount, currency)

(* -------------------------- FILE_UPLOAD handler ------------------------ *)

file_name_errors(file_name) ==
    IF file_name = None THEN <<Lit("Missing required field: 'file_name'")>>
    ELSE IF ~IsStr(file_name) THEN <<Lit("'file_name' must be a string")>>
    ELSE <<>>

size_bytes_errors(size_bytes) ==
    IF size_bytes = None THEN <<Lit("Missing required field: 'size_bytes'")>>
    ELSE IF ~IsInt(size_bytes) THEN <<Lit("'size_bytes' must be an integer")>>
    ELSE IF size_bytes.n < 0 THEN <<Lit("'size_bytes' must be >= 0")>>
    ELSE <<>>

bucket_errors(bucket) ==
    IF bucket = None THEN <<Lit("Missing required field: 'bucket'")>>
    ELSE IF ~IsStr(bucket) THEN <<Lit("'bucket' must be a string")>>
    ELSE <<>>

uploader_errors(uploader) ==
    IF uploader = None THEN <<Lit("Missing required field: 'uploader'")>>
    ELSE IF ~IsStr(uploader) THEN <<Lit("'uploader' must be a string")>>
    ELSE IF ~_is_email(uploader.s) THEN <<Msg("Invalid uploader email: '{}'", <<Format(uploader)>>)>>
    ELSE <<>>

\* faulty variant: the band limits taken as inclusive
storage_class_inclusive(size_bytes) ==
    IF size_bytes <= 1000000 THEN <<"S","T","A","N","D","A","R","D">>
    ELSE IF size_bytes <= 50000000 THEN <<"S","T","A","N","D","A","R","D","_","I","A">>
    ELSE <<"G","L","A","C","I","E","R">>

storage_class(size_bytes) ==
    IF size_bytes < 1000000 THEN <<"S","T","A","N","D","A","R","D">>
    ELSE IF size_bytes < 50000000 THEN <<"S","T","A","N","D","A","R","D","_","I","A">>
    ELSE <<"G","L","A","C","I","E","R">>

handle_file_upload(ev) ==
    LET file_name == Get(ev, "file_name")
        size_bytes == Get(ev, "size_bytes")
        bucket == Get(ev, "bucket")
        uploader == Get(ev, "uploader")
        errors == file_name_errors(file_name) \o size_bytes_errors(size_bytes)
                  \o bucket_errors(bucket) \o uploader_errors(uploader)
    IN IF errors # <<>> THEN _err(errors)
       ELSE _ok("Upload processed",
                [file_name |-> StrV(Strip(file_name.s)),
                 size_bytes |-> size_bytes,
                 bucket |-> StrV(Lower(bucket.s)),
                 uploader |-> StrV(Lower(uploader.s)),
                 storage_class |-> StrV(storage_class(size_bytes.n))])

(* ------------------------------- inputs -------------------------------- *)

NoFields == [f \in FieldNames |-> Absent]

Dict(fields) == [shape |-> "dict", fields |-> fields]

\* a value that is not a dict: a list, a string, null, a number
NonDict(shape) == [shape |-> shape, fields |-> NoFields]

TypeValues ==
    {Absent, None, IntV(1), FloatV(15000), ListV, DictV,
     StrV(USER_SIGNUP), StrV(PAYMENT), StrV(FILE_UPLOAD),
     StrV(<<"R","E","F","U","N","D">>), StrV(Lower(PAYMENT))}

UserIdValues == {Absent, None, IntV(7), BoolV(TRUE), FloatV(15000), StrV(<<"7">>)}

GoodEmail == <<"A","b","@","c",".","d">>

EmailSamples == {Absent, None, IntV(3), StrV(GoodEmail), StrV(<<"b","a","d">>)}

PlanValues ==
    {Absent, None, IntV(2), StrV(<<"f","r","e","e">>), StrV(<<"P","R","O">>), StrV(<<"E","d","u">>), StrV(<<"u","l","t","r","a">>)}

PaymentIdValues == {Absent, None, IntV(9), StrV(<<"p","-","1">>)}

\* finite amounts avoid exact decimal ties of round(): a double has none
AmountValues ==
    {Absent, None, StrV(<<"5">>), BoolV(TRUE), BoolV(FALSE),
     IntV(-1), IntV(0), IntV(1), IntV(100),
     FloatV(-5), FloatV(0), FloatV(1), FloatV(4), FloatV(6), FloatV(12340), FloatV(1000000),
     NaN, InfV(1), InfV(-1), BigIntV}

CurrencyValues ==
    {Absent, None, IntV(4), StrV(<<"u","s","d">>), StrV(<<"B","H","D">>), StrV(<<"x","y","z">>)}

FileNameValues == {Absent, None, IntV(5), StrV(<<" ","a",".","t","x","t"," ">>)}

SizeValues ==
    {Absent, None, StrV(<<"1">>), FloatV(15000), BoolV(TRUE),
     IntV(-1), IntV(0), IntV(999999), IntV(1000000), IntV(49999999), IntV(50000000)}

BucketValues == {Absent, None, IntV(6), StrV(<<"B","k","t">>)}

EmailAlphabet == {"A", "@", ".", " ", "\n"}

\* the strings over EmailAlphabet of exactly n characters
EmailCandidates(n) == [1..n -> EmailAlphabet]

SignupEvent(t, u, e, p) ==
    Dict([NoFields EXCEPT !["type"] = t, !["user_id"] = u, !["email"] = e, !["plan"] = p])

PaymentEvent(t, i, u, a, c) ==
    Dict([NoFields EXCEPT !["type"] = t, !["payment_id"] = i, !["user_id"] = u,
                          !["amount"] = a, !["currency"] = c])

UploadEvent(t, f, z, b, e) ==
    Dict([NoFields EXCEPT !["type"] = t, !["file_name"] = f, !["size_bytes"] = z,
                          !["bucket"] = b, !["uploader"] = e])

\* an event of any type carrying the fields of a signup
InitSignup ==
    \E t \in TypeValues, u \in UserIdValues, e \in EmailSamples, p \in PlanValues :
        event = SignupEvent(t, u, e, p)

\* an event of any type carrying the fields of a payment
InitPayment ==
    \E t \in TypeValues, i \in PaymentIdValues, u \in UserIdValues, a \in AmountValues,
       c \in CurrencyValues :
        event = PaymentEvent(t, i, u, a, c)

\* an event of any type carrying the fields of an upload
InitUpload ==
    \E t \in TypeValues, f \in FileNameValues, z \in SizeValues, b \in BucketValues,
       e \in EmailSamples :
        event = UploadEvent(t, f, z, b, e)

\* an otherwise valid signup or upload with every short string as its e-mail
InitEmail ==
    \E n \in 0..MaxEmailLen : \E e \in EmailCandidates(n) :
        \/ event = SignupEvent(StrV(USER_SIGNUP), IntV(7), StrV(e), StrV(<<"f","r","e","e">>))
        \/ event = UploadEvent(StrV(FILE_UPLOAD), StrV(<<" ","a",".","t","x","t"," ">>), IntV(0), StrV(<<"B","k","t">>), StrV(e))

InitNonDict == \E sh \in {"list", "str", "none", "int"} : event = NonDict(sh)

(* ---------------------------- state machine ---------------------------- *)

Init ==
    /\ InitSignup \/ InitPayment \/ InitUpload \/ InitEmail \/ InitNonDict
    /\ pc = "start"
    /\ result = Pending

\* handler(), up to the call of the per-type function
handler ==
    /\ pc = "start"
    /\ IF event.shape # "dict"
       THEN /\ result' = _err(<<Lit("Event must be a JSON object (dict), not a list or other type")>>)
            /\ pc' = "done"
       ELSE IF ~Has(event, "type")
       THEN /\ result' = _err(<<Lit("Missing required field: 'type'")>>)
            /\ pc' = "done"
       ELSE LET event_type == event.fields["type"]
            IN IF ~Hashable(event_type)
               THEN /\ result' = Raise("TypeError")
                    /\ pc' = "done"
               ELSE IF ~(IsStr(event_type) /\ event_type.s \in ALLOWED_TYPES)
               THEN /\ result' = _err(<<Msg("Unknown event type: '{}'. Allowed: {}",
                                            <<Format(event_type),
                                              Join(<<","," ">>, Sorted(ALLOWED_TYPES))>>)>>)
                    /\ pc' = "done"
               ELSE /\ pc' = (IF event_type.s = USER_SIGNUP THEN "handle_user_signup"
                              ELSE IF event_type.s = PAYMENT THEN "handle_payment"
                              ELSE "handle_file_upload")
                    /\ result' = result
    /\ UNCHANGED event

\* return handle_user_signup(event)
UserSignup ==
    /\ pc = "handle_user_signup"
    /\ result' = handle_user_signup(event)
    /\ pc' = "done"
    /\ UNCHANGED event

\* return handle_payment(event)
Payment ==
    /\ pc = "handle_payment"
    /\ result' = handle_payment(event)
    /\ pc' = "done"
    /\ UNCHANGED event

\* return handle_file_upload(event)
FileUpload ==
    /\ pc = "handle_file_upload"
    /\ result' = handle_file_upload(event)
    /\ pc' = "done"
    /\ UNCHANGED event

Next == handler \/ UserSignup \/ Payment \/ FileUpload

Spec == Init /\ [][Next]_vars

(* ------------------------------- claims -------------------------------- *)

\* handler() has finished, by a return or by an exception
Done == pc = "done"

\* handler() has returned a Result
Returned == pc = "done" /\ result.kind = "result"

\* the event is a dict whose 'type' is the string T
TypeIs(T) == event.shape = "dict" /\ event.fields["type"] = StrV(T)

\* C1: every Result that handler() yields is well-formed: status is ok or
\* error, status is ok exactly when errors is empty and error exactly when it
\* is not, data is a populated mapping when ok and null when error.
C1_ResultWellFormed ==
    Returned =>
        /\ result.status \in {"ok", "error"}
        /\ (result.status = "ok" <=> result.errors = <<>>)
        /\ (result.status = "error" <=> result.errors # <<>>)
        /\ (result.status = "ok" => result.data # None /\ DOMAIN result.data # {})
        /\ (result.status = "error" => result.data = None)

\* an accepted payment and its populated data
C1_Witness ==
    /\ Returned
    /\ TypeIs(PAYMENT)
    /\ result.status = "ok"
    /\ result.data.currency = StrV(<<"U","S","D">>)

\* C2: handler() is total: for every input it returns a Result whose status
\* is ok or error; it never raises and never returns a non-Result.
C2_Total == Done => (result.kind = "result" /\ result.status \in {"ok", "error"})

\* C3: a dict without 'type' yields exactly the one error "Missing required
\* field: 'type'"; a dict whose 'type' is outside the allowed set yields
\* exactly one error naming the value and listing the allowed types as
\* FILE_UPLOAD, PAYMENT, USER_SIGNUP; no per-field error is reported.
C3_StructuralShortCircuit ==
    (Done /\ event.shape = "dict") =>
        /\ ~Has(event, "type") =>
              /\ result.kind = "result"
              /\ result.status = "error"
              /\ result.errors = <<Lit("Missing required field: 'type'")>>
        /\ (Has(event, "type")
            /\ event.fields["type"] \notin {StrV(USER_SIGNUP), StrV(PAYMENT), StrV(FILE_UPLOAD)}) =>
              /\ result.kind = "result"
              /\ result.status = "error"
              /\ Len(result.errors) = 1
              /\ result.errors[1].fmt = "Unknown event type: '{}'. Allowed: {}"
              /\ result.errors[1].args =
                    <<Format(event.fields["type"]),
                      <<"F","I","L","E","_","U","P","L","O","A","D",","," ","P","A","Y","M","E","N","T",","," ","U","S","E","R","_","S","I","G","N","U","P">>>>

\* the event was routed to one of the three per-type handlers
Routed == TypeIs(USER_SIGNUP) \/ TypeIs(PAYMENT) \/ TypeIs(FILE_UPLOAD)

\* the required fields of the handler the event was routed to, in check order
RequiredFields ==
    IF TypeIs(USER_SIGNUP) THEN <<"user_id", "email", "plan">>
    ELSE IF TypeIs(PAYMENT) THEN <<"payment_id", "user_id", "amount", "currency">>
    ELSE <<"file_name", "size_bytes", "bucket", "uploader">>

MissingMsg(f) == Lit("Missing required field: '" \o f \o "'")

TypeDescription(f) ==
    IF f \in {"user_id", "size_bytes"} THEN "an integer"
    ELSE IF f = "amount" THEN "a number"
    ELSE "a string"

TypeMsg(f) == Lit("'" \o f \o "' must be " \o TypeDescription(f))

\* the texts of the value errors of a field
ValueFmts(f) ==
    CASE f = "email" -> {"Invalid email format: '{}'"}
      [] f = "plan" -> {"Invalid plan: '{}'. Allowed: {}"}
      [] f = "amount" -> {"'amount' must be greater than 0, got {}"}
      [] f = "currency" -> {"Invalid currency: '{}'. Allowed: {}"}
      [] f = "size_bytes" -> {"'size_bytes' must be >= 0"}
      [] f = "uploader" -> {"Invalid uploader email: '{}'"}
      [] OTHER -> {}

\* the field an error string is about
FieldOf(e) ==
    CHOOSE f \in FieldNames : e.fmt \in {MissingMsg(f).fmt, TypeMsg(f).fmt} \cup ValueFmts(f)

InErrors(e) == \E i \in 1..Len(result.errors) : result.errors[i] = e

\* what each handler accepts as the value v of its field f
Acceptable(f, v) ==
    CASE f = "user_id" -> v.k \in {"int", "bool"}
      [] f = "size_bytes" -> v.k \in {"int", "bool"} /\ v.n >= 0
      [] f = "amount" ->
            \/ v.k \in {"int", "bool", "float"} /\ v.n > 0
            \/ v.k \in {"nan", "bigint"}
            \/ v.k = "inf" /\ v.n > 0
      [] f \in {"email", "uploader"} -> v.k = "str" /\ _is_email(v.s)
      [] f = "plan" -> v.k = "str" /\ Lower(v.s) \in ALLOWED_PLANS
      [] f = "currency" -> v.k = "str" /\ Upper(v.s) \in ALLOWED_CURRENCIES
      [] OTHER -> v.k = "str"

\* C4: within a per-type handler errors are accumulated: every required
\* field is checked whatever the other fields hold, each rejected field
\* contributes exactly one error that mentions no value but its own, the
\* errors come in the fixed field order, and the Result is ok exactly when
\* no field was rejected.
C4_ErrorsAccumulated ==
    (Returned /\ Routed) =>
        LET Rejected(f) == ~Acceptable(f, event.fields[f])
            rejected == SelectSeq(RequiredFields, Rejected)
        IN /\ Len(result.errors) = Len(rejected)
           /\ \A i \in 1..Len(rejected) :
                 /\ FieldOf(result.errors[i]) = rejected[i]
                 /\ \/ result.errors[i].args = <<>>
                    \/ result.errors[i].args[1] = Format(event.fields[rejected[i]])
           /\ (result.status = "ok" <=> rejected = <<>>)

\* the signup of the specification: no user_id, email "bad", plan "ultra"
C4_Witness ==
    /\ Returned
    /\ TypeIs(USER_SIGNUP)
    /\ event.fields["user_id"] = Absent
    /\ event.fields["email"] = StrV(<<"b","a","d">>)
    /\ event.fields["plan"] = StrV(<<"u","l","t","r","a">>)
    /\ Len(result.errors) = 3

\* a value of the type the specification declares for field f
OfDeclaredType(f, v) ==
    IF f \in {"user_id", "size_bytes"} THEN v.k \in {"int", "bigint"}
    ELSE IF f = "amount" THEN v.k \in {"int", "bigint", "float", "nan", "inf"}
    ELSE v.k = "str"

\* C5: for each required field of a per-type handler, "Missing required
\* field: '<name>'" is reported exactly when the field is absent from the
\* event, and "'<name>' must be <type>" exactly when the field is present
\* with a value that is not of the expected type.
C5_MissingVersusWrongType ==
    (Returned /\ Routed) =>
        \A i \in 1..Len(RequiredFields) :
            LET f == RequiredFields[i]
                v == event.fields[f]
            IN /\ InErrors(MissingMsg(f)) <=> v = Absent
               /\ InErrors(TypeMsg(f)) <=> (v # Absent /\ ~OfDeclaredType(f, v))

\* C6: in every ok Result each data field holds a value of its declared kind
\* and domain: user_id and size_bytes are integers and not booleans, amount
\* is a number and not a boolean, plan and currency are in their allowed
\* sets, email and uploader pass the e-mail validator, size_bytes >= 0.
C6_DataValidated ==
    (Returned /\ Routed /\ result.status = "ok") =>
        /\ TypeIs(USER_SIGNUP) =>
              /\ result.data.user_id.k = "int"
              /\ result.data.email.k = "str" /\ _is_email(result.data.email.s)
              /\ result.data.plan.k = "str" /\ result.data.plan.s \in ALLOWED_PLANS
        /\ TypeIs(PAYMENT) =>
              /\ result.data.user_id.k = "int"
              /\ result.data.amount.k \in {"int", "float", "nan", "inf"}
              /\ result.data.currency.k = "str" /\ result.data.currency.s \in ALLOWED_CURRENCIES
        /\ TypeIs(FILE_UPLOAD) =>
              /\ result.data.size_bytes.k = "int"
              /\ result.data.size_bytes.n >= 0
              /\ result.data.uploader.k = "str" /\ _is_email(result.data.uploader.s)

\* the amounts at or below zero, as Python prints them
Echoed(v) ==
    CASE v = IntV(0) -> <<"0">>
      [] v = IntV(-1) -> <<"-","1">>
      [] v = FloatV(0) -> <<"0",".","0">>
      [] v = FloatV(-5) -> <<"-","0",".","0","0","0","5">>
      [] OTHER -> Format(v)

\* C7: a PAYMENT event whose amount is a number <= 0 always yields an error
\* Result whose errors contain "'amount' must be greater than 0, got <value>"
\* with the value as supplied, whatever the other fields are; never ok.
C7_NonPositiveAmountRejected ==
    (Done /\ TypeIs(PAYMENT) /\ event.fields["amount"].k \in {"int", "float"}
          /\ event.fields["amount"].n <= 0) =>
        /\ result.kind = "result"
        /\ result.status = "error"
        /\ InErrors(Msg("'amount' must be greater than 0, got {}",
                        <<Echoed(event.fields["amount"])>>))

\* a zero amount next to another rejected field
C7_Witness ==
    /\ Returned
    /\ TypeIs(PAYMENT)
    /\ event.fields["amount"] = FloatV(0)
    /\ event.fields["currency"] = StrV(<<"x","y","z">>)
    /\ Len(result.errors) >= 2
    /\ InErrors(Msg("'amount' must be greater than 0, got {}", <<<<"0",".","0">>>>))

\* C8: for an accepted FILE_UPLOAD, storage_class depends on size_bytes
\* alone: below 1,000,000 STANDARD, from 1,000,000 and below 50,000,000
\* STANDARD_IA, from 50,000,000 GLACIER; size_bytes is returned unchanged.
C8_StorageClassBands ==
    (Returned /\ TypeIs(FILE_UPLOAD) /\ result.status = "ok") =>
        LET z == event.fields["size_bytes"]
            class == result.data.storage_class
        IN /\ result.data.size_bytes = z
           /\ z.n < 1000000 => class = StrV(<<"S","T","A","N","D","A","R","D">>)
           /\ (1000000 <= z.n /\ z.n < 50000000) => class = StrV(<<"S","T","A","N","D","A","R","D","_","I","A">>)
           /\ z.n >= 50000000 => class = StrV(<<"G","L","A","C","I","E","R">>)
           /\ z.n = 999999 => class = StrV(<<"S","T","A","N","D","A","R","D">>)
           /\ z.n = 1000000 => class = StrV(<<"S","T","A","N","D","A","R","D","_","I","A">>)
           /\ z.n = 49999999 => class = StrV(<<"S","T","A","N","D","A","R","D","_","I","A">>)
           /\ z.n = 50000000 => class = StrV(<<"G","L","A","C","I","E","R">>)

\* an upload of exactly 1,000,000 bytes, the first size of STANDARD_IA
C8_Witness ==
    /\ Returned
    /\ TypeIs(FILE_UPLOAD)
    /\ result.status = "ok"
    /\ event.fields["size_bytes"] = IntV(1000000)
    /\ result.data.storage_class = StrV(<<"S","T","A","N","D","A","R","D","_","I","A">>)

\* L@D.R over the whole string: one '@', no whitespace, L, D and R non-empty
AnchoredForm(cs) ==
    /\ \A i \in 1..Len(cs) : cs[i] \notin Whitespace
    /\ Cardinality({i \in 1..Len(cs) : cs[i] = "@"}) = 1
    /\ \E i, j \in 1..Len(cs) :
          /\ cs[i] = "@"
          /\ cs[j] = "."
          /\ 1 < i
          /\ i + 1 < j
          /\ j < Len(cs)

\* C9: a string is accepted as email or uploader exactly when the whole
\* string has the form L@D.R with L, D, R non-empty and free of '@' and of
\* whitespace; so an accepted string has exactly one '@' and no whitespace at
\* any position, a trailing newline included.
C9_EmailAnchored ==
    /\ (Returned /\ TypeIs(USER_SIGNUP) /\ event.fields["email"].k = "str") =>
          LET email == event.fields["email"]
          IN ~InErrors(Msg("Invalid email format: '{}'", <<email.s>>)) <=> AnchoredForm(email.s)
    /\ (Returned /\ TypeIs(FILE_UPLOAD) /\ event.fields["uploader"].k = "str") =>
          LET uploader == event.fields["uploader"]
          IN ~InErrors(Msg("Invalid uploader email: '{}'", <<uploader.s>>))
                <=> AnchoredForm(uploader.s)

\* C10: in every ok PAYMENT Result with a finite amount, in fixed point: the
\* normalized amount is > 0, fee is 0.02 x amount rounded to 3 places and
\* >= 0, net_amount is amount - fee, fee + net_amount = amount, net_amount > 0.
C10_PaymentArithmetic ==
    (Returned /\ TypeIs(PAYMENT) /\ result.status = "ok" /\ result.data.amount.k = "float") =>
        LET a == result.data.amount.n
            fee == result.data.fee.n
            net == result.data.net_amount.n
            unit == Scale \div 1000
        IN /\ a > 0
           /\ a % unit = 0 /\ fee % unit = 0 /\ net % unit = 0
           /\ 100 * fee - 2 * a <= 50 * unit
           /\ 2 * a - 100 * fee <= 50 * unit
           /\ fee >= 0
           /\ net = a - fee
           /\ fee + net = a
           /\ net > 0

====
